---- MODULE Spec2Model ----
(***************************************************************************)
(* go-check-prometheus: a Nagios plugin that runs one Prometheus query,    *)
(* classifies every returned sample against warning/critical ranges and    *)
(* exits with the status of one representative sample.                     *)
(*                                                                         *)
(* The model follows main() of main.go statement by statement.  Strings    *)
(* that the program inspects (threshold specs, host, printed values) are   *)
(* sequences of one-character strings.  Sample values are records          *)
(* [nan, n]: an integer n, or NaN.                                         *)
(***************************************************************************)
EXTENDS Integers, Sequences, FiniteSets, TLC

\* ------------------------------------------------------------------ bounds
\* largest number of samples in a query result
MaxLen == 3

\* ------------------------------------------------- nagios exit codes
StatusOK == 0
StatusWarning == 1
StatusCritical == 2
StatusUnknown == 3
\* no status has been set on the check by main()
NoStatus == 0 - 1
\* the process is still running
Running == 0 - 1
\* default of the --timeout flag
DefaultTimeout == 10

\* ------------------------------------------------------- strings
DigitChars == <<"0", "1", "2", "3", "4", "5", "6", "7", "8", "9">>

IsDigit(c) == \E i \in 1..10 : DigitChars[i] = c

DigitVal(c) == (CHOOSE i \in 1..10 : DigitChars[i] = c) - 1

DigitChar(d) == DigitChars[d + 1]

RECURSIVE DigitsToNat(_)
DigitsToNat(s) ==
    IF Len(s) = 0 THEN 0
    ELSE 10 * DigitsToNat(SubSeq(s, 1, Len(s) - 1)) + DigitVal(s[Len(s)])

RECURSIVE NatToDigits(_)
NatToDigits(n) ==
    IF n < 10 THEN <<DigitChar(n)>>
    ELSE Append(NatToDigits(n \div 10), DigitChar(n % 10))

AllDigits(s) == Len(s) > 0 /\ \A i \in 1..Len(s) : IsDigit(s[i])

\* a decimal integer literal, optionally signed
IsNumber(s) ==
    IF Len(s) > 0 /\ s[1] = "-" THEN AllDigits(Tail(s)) ELSE AllDigits(s)

NumberVal(s) ==
    IF s[1] = "-" THEN 0 - DigitsToNat(Tail(s)) ELSE DigitsToNat(s)

\* position of the first c in s, 0 when absent
IndexOf(s, c) ==
    IF \E i \in 1..Len(s) : s[i] = c
    THEN CHOOSE i \in 1..Len(s) : s[i] = c /\ \A j \in 1..(i - 1) : s[j] # c
    ELSE 0

\* ------------------------------------------------------- sample values
NaN == [nan |-> TRUE, n |-> 0]

Num(k) == [nan |-> FALSE, n |-> k]

\* model.SampleValue.String(): shortest decimal form of the float
ValueString(v) ==
    IF v.nan THEN <<"N", "a", "N">>
    ELSE IF v.n < 0 THEN <<"-">> \o NatToDigits(0 - v.n)
    ELSE NatToDigits(v.n)

\* strconv.ParseFloat(s, 64); the error is discarded by the caller and the
\* result is then the zero value
ParseFloat(s) ==
    IF s = <<"N", "a", "N">> THEN NaN
    ELSE IF IsNumber(s) THEN Num(NumberVal(s))
    ELSE Num(0)

\* model.Sample.String()
SampleString(v) == <<"{", "}", " ", "=", ">", " ">> \o ValueString(v)

\* model.Vector.String(): the samples' strings joined by newlines
RECURSIVE VectorString(_)
VectorString(vs) ==
    IF Len(vs) = 0 THEN <<>>
    ELSE IF Len(vs) = 1 THEN SampleString(vs[1])
    ELSE SampleString(vs[1]) \o <<"\n">> \o VectorString(Tail(vs))

\* ------------------------------------------------------- threshold ranges
\* A parsed range: ok = FALSE is a parse error.
BadRange == [ok |-> FALSE, inverted |-> FALSE, loInf |-> FALSE, lo |-> 0,
             hiInf |-> FALSE, hi |-> 0]

MkRange(inv, loInf, lo, hiInf, hi) ==
    IF ~loInf /\ ~hiInf /\ lo > hi THEN BadRange
    ELSE [ok |-> TRUE, inverted |-> inv, loInf |-> loInf, lo |-> lo,
          hiInf |-> hiInf, hi |-> hi]

\* [@]start:end, start defaults to 0, "~" is minus infinity, an omitted end
\* is plus infinity, a single number N is 0:N
ParseRange(s) ==
    LET inv == Len(s) > 0 /\ s[1] = "@"
        body == IF inv THEN Tail(s) ELSE s
        c == IndexOf(body, ":")
        startStr == IF c = 0 THEN <<>> ELSE SubSeq(body, 1, c - 1)
        endStr == IF c = 0 THEN body ELSE SubSeq(body, c + 1, Len(body))
        startOk == startStr = <<>> \/ startStr = <<"~">> \/ IsNumber(startStr)
        endOk == IF c = 0 THEN IsNumber(endStr)
                 ELSE endStr = <<>> \/ IsNumber(endStr)
    IN  IF ~(startOk /\ endOk) THEN BadRange
        ELSE MkRange(inv,
                     startStr = <<"~">>,
                     IF IsNumber(startStr) THEN NumberVal(startStr) ELSE 0,
                     endStr = <<>>,
                     IF IsNumber(endStr) THEN NumberVal(endStr) ELSE 0)

\* start <= v <= end
Inside(r, k) == (r.loInf \/ r.lo <= k) /\ (r.hiInf \/ k <= r.hi)

\* the alarm condition of a range: outside it, or inside it when inverted
Alarm(r, k) == IF r.inverted THEN Inside(r, k) ELSE ~Inside(r, k)

\* RangeCheck.CheckValue: the exit code of the status it sets
Classify(w, c, v) ==
    IF v.nan THEN StatusUnknown
    ELSE IF Alarm(c, v.n) THEN StatusCritical
    ELSE IF Alarm(w, v.n) THEN StatusWarning
    ELSE StatusOK

\* ------------------------------------------------------- inputs
Hosts == { <<>>,
           <<"my.host">>,
           <<"http://", "my.host">>,
           <<"https://", "my.host">>,
           <<"my", " ", "host">> }

Queries == { <<>>, <<"up">> }

ThresholdSpecs == { <<>>,
                    <<"1", "0">>,
                    <<"1", "0", "0">>,
                    <<"@", "1", "0", ":", "1", "0", "0">>,
                    <<"~", ":", "5", "0">>,
                    <<"a", "b", "c">>,
                    <<"2", "0", ":", "1", "0">> }

Timeouts == { 0, DefaultTimeout }

Values == { Num(-1), Num(5), Num(50), Num(150), NaN }

Vectors == UNION { [1..n -> Values] : n \in 0..MaxLen }

\* results of a query that are not an instant vector
OtherKinds == { "scalar", "matrix", "string" }

QueryErrors == { "network", "deadline" }

\* exit codes a run can end with when main() panics while check.Done() is
\* deferred: the runtime's own code 2, or the code of the status a fresh
\* check carries
PanicExitCodes == { 0, 2, 3 }

VARIABLES
    showHelp, host, query, warning, critical, timeout,
    pc,
    warnRange, critRange,
    status, message, perfData,
    queriesSent, queryErr, resultKind, vec,
    metricIdx, finalExitStatus, outputCheckIdx,
    scanned, unknownCalls, emptyChecked, indexed,
    usagePrinted, errPrinted, checkEmitted, panicked,
    exitCode, exits

flags == <<showHelp, query, warning, critical, timeout>>
checkv == <<status, message, perfData>>
ranges == <<warnRange, critRange>>
resultv == <<queriesSent, queryErr, resultKind, vec>>
scanv == <<metricIdx, finalExitStatus, outputCheckIdx, scanned>>
outv == <<usagePrinted, errPrinted, checkEmitted>>
ghost == <<unknownCalls, emptyChecked, indexed, panicked>>
exitv == <<exitCode, exits>>

vars == <<flags, host, pc, ranges, checkv, resultv, scanv, outv, ghost, exitv>>

Init ==
    /\ showHelp \in BOOLEAN
    /\ host \in Hosts
    /\ query \in Queries
    /\ warning \in ThresholdSpecs
    /\ critical \in ThresholdSpecs
    /\ timeout \in Timeouts
    /\ pc = "start"
    /\ warnRange = BadRange
    /\ critRange = BadRange
    /\ status = NoStatus
    /\ message = "none"
    /\ perfData = <<>>
    /\ queriesSent = 0
    /\ queryErr = "none"
    /\ resultKind = "none"
    /\ vec = <<>>
    /\ metricIdx = 0
    /\ finalExitStatus = 0
    /\ outputCheckIdx = 0
    /\ scanned = 0
    /\ unknownCalls = 0
    /\ emptyChecked = FALSE
    /\ indexed = "no"
    /\ usagePrinted = FALSE
    /\ errPrinted = "none"
    /\ checkEmitted = FALSE
    /\ panicked = FALSE
    /\ exitCode = Running
    /\ exits = 0

\* os.Exit(code)
Exit(code) ==
    /\ pc' = "exited"
    /\ exitCode' = code
    /\ exits' = exits + 1

\* printUsage()
PrintUsage == usagePrinted' = TRUE

\* printUsageErrorAndExit(code, err)
PrintUsageErrorAndExit(code) ==
    /\ errPrinted' = "execution failed"
    /\ PrintUsage
    /\ Exit(code)

\* check.Unknown(format, ...): status UNKNOWN and a message
CheckUnknown(msg) ==
    /\ status' = StatusUnknown
    /\ message' = msg
    /\ unknownCalls' = unknownCalls + 1

\* checkRequiredOptions(): the error, or "nil"
CheckRequiredOptions ==
    IF host = <<>> THEN "host is required"
    ELSE IF query = <<>> THEN "query is required"
    ELSE IF warning = <<>> THEN "warning is required"
    ELSE IF critical = <<>> THEN "critical is required"
    ELSE "nil"

HasPrefix(s, p) == Len(s) > 0 /\ s[1] = p

\* the host with a scheme in front
WithScheme(h) ==
    IF ~(HasPrefix(h, "https://") \/ HasPrefix(h, "http://"))
    THEN <<"http://">> \o h
    ELSE h

\* api.NewClient fails when the address is no URL
ValidURL(h) == \A i \in 1..Len(h) : h[i] # " "

\* the specs handed to nagios.NewRangeCheckParse: warning first
RangeCheckArgs_Swapped == <<critical, warning>>

RangeCheckArgs == <<warning, critical>>

\* the test on the empty result
IsEmptyResult_Never == FALSE

IsEmptyResult == Len(VectorString(vec)) = 0

\* the loop breaks on a CRITICAL sample
IsBreak_Never(code) == FALSE

IsBreak(code) == code = StatusCritical

\* a sample replaces the one kept so far
Replaces_OnEqual(code, final) == code >= final

Replaces_FirstNonOK(code, final) == final = 0 /\ code > 0

Replaces(code, final) == code > final

\* the status of the check after the second check.CheckValue(val)
FinalStatus_Stale(val) == status

FinalStatus(val) == Classify(warnRange, critRange, val)

\* ------------------------------------------------------- main()
\* --help: usage and exit 0
ShowHelp ==
    /\ pc = "start"
    /\ showHelp
    /\ PrintUsage
    /\ Exit(0)
    /\ UNCHANGED <<flags, host, ranges, checkv, resultv, scanv, errPrinted,
                   checkEmitted, ghost>>

\* a required option is missing
RequiredOptionMissing ==
    /\ pc = "start"
    /\ ~showHelp
    /\ CheckRequiredOptions # "nil"
    /\ PrintUsageErrorAndExit(3)
    /\ UNCHANGED <<flags, host, ranges, checkv, resultv, scanv, checkEmitted,
                   ghost>>

\* the options are complete; the host gets its scheme
OptionsOk ==
    /\ pc = "start"
    /\ ~showHelp
    /\ CheckRequiredOptions = "nil"
    /\ host' = WithScheme(host)
    /\ pc' = "newClient"
    /\ UNCHANGED <<flags, ranges, checkv, resultv, scanv, outv, ghost, exitv>>

\* api.NewClient returns an error
NewClientError ==
    /\ pc = "newClient"
    /\ ~ValidURL(host)
    /\ errPrinted' = "Error creating client"
    /\ Exit(1)
    /\ UNCHANGED <<flags, host, ranges, checkv, resultv, scanv, usagePrinted,
                   checkEmitted, ghost>>

NewClientOk ==
    /\ pc = "newClient"
    /\ ValidURL(host)
    /\ pc' = "newCheck"
    /\ UNCHANGED <<flags, host, ranges, checkv, resultv, scanv, outv, ghost,
                   exitv>>

\* nagios.NewRangeCheckParse returns an error
RangeParseError ==
    /\ pc = "newCheck"
    /\ ~(ParseRange(RangeCheckArgs[1]).ok /\ ParseRange(RangeCheckArgs[2]).ok)
    /\ PrintUsageErrorAndExit(3)
    /\ UNCHANGED <<flags, host, ranges, checkv, resultv, scanv, checkEmitted,
                   ghost>>

\* the check exists from here on and check.Done() is deferred
NewRangeCheck ==
    /\ pc = "newCheck"
    /\ ParseRange(RangeCheckArgs[1]).ok /\ ParseRange(RangeCheckArgs[2]).ok
    /\ warnRange' = ParseRange(RangeCheckArgs[1])
    /\ critRange' = ParseRange(RangeCheckArgs[2])
    /\ pc' = "query"
    /\ UNCHANGED <<flags, host, checkv, resultv, scanv, outv, ghost, exitv>>

\* a failed query is tried once more
QueryError_Retry ==
    /\ pc = "query"
    /\ \E e \in QueryErrors :
        /\ timeout <= 0 => e = "deadline"
        /\ queryErr' = e
    /\ queriesSent' = queriesSent + 1
    /\ IF queriesSent = 0
       THEN pc' = "query" /\ UNCHANGED <<status, message, unknownCalls>>
       ELSE pc' = "done" /\ CheckUnknown("Error querying Prometheus")
    /\ UNCHANGED <<flags, host, ranges, perfData, resultKind, vec, scanv, outv,
                   emptyChecked, indexed, panicked, exitv>>

\* v1api.Query returns an error: network failure, or the deadline of the
\* timeout context passed
QueryError ==
    /\ pc = "query"
    /\ \E e \in QueryErrors :
        /\ timeout <= 0 => e = "deadline"
        /\ queryErr' = e
    /\ queriesSent' = queriesSent + 1
    /\ CheckUnknown("Error querying Prometheus")
    /\ pc' = "done"
    /\ UNCHANGED <<flags, host, ranges, perfData, resultKind, vec, scanv, outv,
                   emptyChecked, indexed, panicked, exitv>>

\* v1api.Query returns a value
QueryResult ==
    /\ pc = "query"
    /\ timeout > 0
    /\ queriesSent' = queriesSent + 1
    /\ \/ resultKind' = "vector" /\ vec' \in Vectors
       \/ resultKind' \in OtherKinds /\ vec' = <<>>
    /\ pc' = "assert"
    /\ UNCHANGED <<flags, host, ranges, checkv, queryErr, scanv, outv, ghost,
                   exitv>>

\* a checked assertion that reports UNKNOWN
TypeAssertPanic_Checked ==
    /\ pc = "assert"
    /\ resultKind # "vector"
    /\ CheckUnknown("unexpected result")
    /\ pc' = "done"
    /\ UNCHANGED <<flags, host, ranges, perfData, resultv, scanv, outv,
                   emptyChecked, indexed, panicked, exitv>>

\* result.(model.Vector) on another kind of value panics
TypeAssertPanic ==
    /\ pc = "assert"
    /\ resultKind # "vector"
    /\ panicked' = TRUE
    /\ \E c \in PanicExitCodes : Exit(c)
    /\ UNCHANGED <<flags, host, ranges, checkv, resultv, scanv, outv,
                   unknownCalls, emptyChecked, indexed>>

TypeAssertOk ==
    /\ pc = "assert"
    /\ resultKind = "vector"
    /\ pc' = "empty"
    /\ UNCHANGED <<flags, host, ranges, checkv, resultv, scanv, outv, ghost,
                   exitv>>

\* len(result.String()) == 0
EmptyResult ==
    /\ pc = "empty"
    /\ IsEmptyResult
    /\ emptyChecked' = TRUE
    /\ CheckUnknown("The query did not return any result")
    /\ pc' = "done"
    /\ UNCHANGED <<flags, host, ranges, perfData, resultv, scanv, outv, indexed,
                   panicked, exitv>>

NonEmptyResult ==
    /\ pc = "empty"
    /\ ~IsEmptyResult
    /\ emptyChecked' = TRUE
    /\ metricIdx' = 0
    /\ finalExitStatus' = 0
    /\ outputCheckIdx' = 0
    /\ pc' = "scan"
    /\ UNCHANGED <<flags, host, ranges, checkv, resultv, scanned, outv,
                   unknownCalls, indexed, panicked, exitv>>

\* one iteration of the loop over vec
ScanSample ==
    /\ pc = "scan"
    /\ metricIdx < Len(vec)
    /\ LET code == Classify(warnRange, critRange, vec[metricIdx + 1])
       IN  /\ status' = code
           /\ scanned' = scanned + 1
           /\ IF IsBreak(code)
              THEN /\ outputCheckIdx' = metricIdx
                   /\ pc' = "select"
                   /\ UNCHANGED <<metricIdx, finalExitStatus>>
              ELSE /\ IF Replaces(code, finalExitStatus)
                      THEN /\ finalExitStatus' = code
                           /\ outputCheckIdx' = metricIdx
                      ELSE UNCHANGED <<finalExitStatus, outputCheckIdx>>
                   /\ metricIdx' = metricIdx + 1
                   /\ pc' = "scan"
    /\ UNCHANGED <<flags, host, ranges, message, perfData, resultv, outv, ghost,
                   exitv>>

\* the loop is over
ScanEnd ==
    /\ pc = "scan"
    /\ metricIdx >= Len(vec)
    /\ pc' = "select"
    /\ UNCHANGED <<flags, host, ranges, checkv, resultv, scanv, outv, ghost,
                   exitv>>

\* vec[outputCheckIdx], its value printed and parsed back, checked again
SelectOutput ==
    /\ pc = "select"
    /\ IF outputCheckIdx >= Len(vec)
       THEN /\ indexed' = "out of range"
            /\ panicked' = TRUE
            /\ \E c \in PanicExitCodes : Exit(c)
            /\ UNCHANGED checkv
       ELSE LET valStr == ValueString(vec[outputCheckIdx + 1])
                val == ParseFloat(valStr)
            IN  /\ indexed' = "in range"
                /\ status' = FinalStatus(val)
                /\ perfData' = <<val>>
                /\ message' = "metric"
                /\ pc' = "done"
                /\ UNCHANGED <<panicked, exitv>>
    /\ UNCHANGED <<flags, host, ranges, resultv, scanv, outv, unknownCalls,
                   emptyChecked>>

\* the deferred check.Done(): print the check, exit with its status
Done ==
    /\ pc = "done"
    /\ checkEmitted' = TRUE
    /\ Exit(status)
    /\ UNCHANGED <<flags, host, ranges, checkv, resultv, scanv, usagePrinted,
                   errPrinted, ghost>>

Next ==
    \/ ShowHelp
    \/ RequiredOptionMissing
    \/ OptionsOk
    \/ NewClientError
    \/ NewClientOk
    \/ RangeParseError
    \/ NewRangeCheck
    \/ QueryError
    \/ QueryResult
    \/ TypeAssertPanic
    \/ TypeAssertOk
    \/ EmptyResult
    \/ NonEmptyResult
    \/ ScanSample
    \/ ScanEnd
    \/ SelectOutput
    \/ Done

Spec == Init /\ [][Next]_vars

\* main() runs to its end: every step that is enabled is eventually taken
FairSpec == Spec /\ WF_vars(Next)

\* ------------------------------------------------------- properties
W10 == <<"1", "0">>
C100 == <<"1", "0", "0">>

\* the query returned a vector and the scan is over
Scanned == resultKind = "vector" /\ pc \in {"select", "done", "exited"}

\* exit code of the i-th sample (1-based) under the parsed ranges
Code(i) == Classify(warnRange, critRange, vec[i])

IdxWith(code) == { i \in 1..Len(vec) : Code(i) = code }

First(S) == CHOOSE i \in S : \A j \in S : i <= j

MaxCode == CHOOSE c \in 0..3 :
    /\ IdxWith(c) # {}
    /\ \A i \in 1..Len(vec) : Code(i) <= c

\* C1: when a result holds a CRITICAL sample, the scan never goes past the
\* first one, stops on it, keeps it as the representative sample, and the
\* process exits 2; [5, 150, 50] under -w 10 -c 100 picks the second sample.
C1_FirstCriticalWins ==
    /\ (pc \in {"scan", "select", "done", "exited"} /\ IdxWith(2) # {})
          => scanned <= First(IdxWith(2))
    /\ (Scanned /\ IdxWith(2) # {}) =>
          /\ scanned = First(IdxWith(2))
          /\ outputCheckIdx + 1 = First(IdxWith(2))
          /\ pc \in {"done", "exited"} => status = 2
          /\ pc = "exited" => exitCode = 2
    /\ (pc = "exited" /\ warning = W10 /\ critical = C100
          /\ vec = <<Num(5), Num(150), Num(50)>>)
          => outputCheckIdx = 1 /\ exitCode = 2

C1_Witness ==
    /\ pc = "exited"
    /\ warning = W10 /\ critical = C100
    /\ vec = <<Num(5), Num(150), Num(50)>>
    /\ scanned = 2 /\ outputCheckIdx = 1 /\ exitCode = 2

C3_EmptyResult ==
    /\ (resultKind = "vector" /\ Len(vec) = 0) =>
          /\ pc \in {"assert", "empty", "done", "exited"}
          /\ scanned = 0
          /\ indexed = "no"
          /\ ~panicked
          /\ pc \in {"done", "exited"} =>
                /\ status = StatusUnknown
                /\ message = "The query did not return any result"
          /\ pc = "exited" => exitCode = 3 /\ checkEmitted
    /\ indexed # "out of range"

C3_Witness ==
    /\ pc = "exited"
    /\ resultKind = "vector" /\ vec = <<>>
    /\ emptyChecked
    /\ exitCode = 3

\* a required option is missing or a threshold spec does not parse
ConfigError ==
    \/ host = <<>> \/ query = <<>> \/ warning = <<>> \/ critical = <<>>
    \/ ~ParseRange(warning).ok
    \/ ~ParseRange(critical).ok

\* C4: a run (help not requested) with a configuration error sends no
\* query and exits 3 after printing the error and the usage text.
C4_ConfigErrorExits3 ==
    (~showHelp /\ ConfigError) =>
        /\ queriesSent = 0
        /\ pc = "exited" =>
              /\ exitCode = 3
              /\ usagePrinted
              /\ errPrinted = "execution failed"

\* C5: a failed client construction and a failed query both end as
\* UNKNOWN: exit 3 with the message of the check, and no panic.
C5_TransportErrorUnknown ==
    (pc = "exited" /\ (errPrinted = "Error creating client" \/ queryErr # "none"))
        => /\ exitCode = 3
           /\ checkEmitted
           /\ message # "none"
           /\ ~panicked

\* C6: without a CRITICAL sample and with a WARNING one, the representative
\* sample is the first one whose exit code is the largest in the vector;
\* while scanning, the sample kept is the first one of the code kept.
C6_FirstMaxSeverity ==
    /\ (Scanned /\ IdxWith(2) = {} /\ IdxWith(1) # {}) =>
          /\ finalExitStatus = MaxCode
          /\ outputCheckIdx + 1 = First(IdxWith(MaxCode))
    /\ (pc = "scan" /\ finalExitStatus > 0) =>
          /\ outputCheckIdx < metricIdx
          /\ Code(outputCheckIdx + 1) = finalExitStatus
          /\ \A j \in 1..outputCheckIdx : Code(j) < finalExitStatus
          /\ \A j \in 1..metricIdx : Code(j) <= finalExitStatus

C6_Witness ==
    /\ pc = "exited"
    /\ warning = W10 /\ critical = C100
    /\ vec = <<Num(5), Num(50), Num(50)>>
    /\ outputCheckIdx = 1
    /\ exitCode = 1

\* C7: at most one query is sent, a failed query is never followed by
\* another, the run ends and its exit code is set once; a failed query
\* ends as UNKNOWN with no sample scanned.
C7_SingleQueryNoRetry ==
    /\ [](queriesSent <= 1 /\ exits <= 1)
    /\ [](queryErr # "none" =>
            /\ scanned = 0 /\ indexed = "no" /\ resultKind = "none"
            /\ status = StatusUnknown
            /\ pc = "exited" => exitCode = 3)
    /\ [][queryErr # "none" => queriesSent' = queriesSent]_vars
    /\ [][pc = "exited" => exitCode' = exitCode /\ pc' = pc]_vars
    /\ <>(pc = "exited" /\ exits = 1 /\ exitCode \in 0..3)

C7_Witness ==
    /\ pc = "exited"
    /\ queryErr = "deadline"
    /\ queriesSent = 1
    /\ exitCode = 3

\* a vector without CRITICAL that holds a WARNING and an UNKNOWN sample
WarningAndUnknown ==
    Scanned /\ IdxWith(2) = {} /\ IdxWith(1) # {} /\ IdxWith(3) # {}

\* C8 as stated: with a WARNING and an UNKNOWN sample and no CRITICAL one,
\* the representative sample is a WARNING one.
C8_WarningOverUnknown ==
    WarningAndUnknown => Code(outputCheckIdx + 1) = StatusWarning

\* C8 amended: with a WARNING and an UNKNOWN sample and no CRITICAL one,
\* the representative sample is the first UNKNOWN one and the exit code is 3.
C8_UnknownOverWarning ==
    WarningAndUnknown =>
        /\ outputCheckIdx + 1 = First(IdxWith(3))
        /\ pc = "exited" => exitCode = 3

C8_Witness ==
    /\ pc = "exited"
    /\ warning = W10 /\ critical = C100
    /\ vec = <<Num(50), NaN, Num(50)>>
    /\ outputCheckIdx = 1
    /\ exitCode = 3

\* C9: a result that is no vector panics at the type assertion: the empty
\* test is not reached, no sample is scanned and main() never sets UNKNOWN.
C9_TypeAssertAborts ==
    (resultKind \in OtherKinds) =>
        /\ pc \in {"assert", "exited"}
        /\ ~emptyChecked
        /\ scanned = 0
        /\ unknownCalls = 0
        /\ status # StatusUnknown
        /\ pc = "exited" => panicked

C9_Witness ==
    /\ pc = "exited"
    /\ resultKind = "scalar"
    /\ panicked
    /\ unknownCalls = 0

\* C10: for a non-empty vector the exit code is the code of the
\* representative sample: 2 when the loop broke, else the largest code the
\* scan recorded; when every sample is OK it is 0 and the first sample is kept.
C10_ExitIsRepresentative ==
    (pc = "exited" /\ resultKind = "vector" /\ Len(vec) > 0) =>
        /\ exitCode = Code(outputCheckIdx + 1)
        /\ exitCode = IF metricIdx < Len(vec) THEN 2 ELSE finalExitStatus
        /\ (metricIdx < Len(vec)) = (IdxWith(2) # {})
        /\ IdxWith(2) = {} => exitCode = MaxCode
        /\ (\A i \in 1..Len(vec) : Code(i) = 0) =>
              exitCode = 0 /\ outputCheckIdx = 0

C10_Witness ==
    /\ pc = "exited"
    /\ warning = W10 /\ critical = C100
    /\ vec = <<Num(50), Num(5)>>
    /\ scanned = 2
    /\ outputCheckIdx = 0
    /\ exitCode = 1

====
